---- MODULE Spec2Model ----
(***************************************************************************)
(* Reaction orchestration core of polymerist: the reactant-ordering        *)
(* enumeration of AnnotatedReaction, Reactor.react,                        *)
(* PolymerizationReactor.propagate, the bond-provenance bookkeeping of     *)
(* product_info_maps and the intermonomer-bond locators of fragment.py.    *)
(*                                                                         *)
(* Python sequences are 0-indexed; the sequences here are 1-indexed, so    *)
(* template t of the code is template t+1 here and reactant index i of the *)
(* code is index i+1 here.  Atom and bond ids keep the code's 0-based ids. *)
(***************************************************************************)
EXTENDS Integers, Sequences, FiniteSets, TLC

\* ------------------------------------------------------------------ bounds
MaxTemplates == 2      \* most reactant templates of a reaction schema
MaxPool == 2           \* most reactants in a pool handed to the solver
MaxCount == 1          \* most substructure matches of a template in one reactant

MaxProductTemplates == 2   \* most product templates of a reaction schema
MaxRepetitions == 2        \* largest repetitions argument of Reactor.react
MaxMapped == 3             \* number of mapped atoms (atom map numbers 1..MaxMapped) of a schema
MaxAtoms == 3              \* number of atoms of a reaction product handed to a fragmentation strategy
MaxServices == 2           \* most services handed to get_chemical_property
MaxResponse == 2           \* most entries of a list a chemical database answers with
MaxDims == 3               \* most dimensions of an integer lattice
MaxSide == 3               \* longest side of an integer lattice
MaxMolAtoms == 2           \* atoms of a molecule written to an SDF file
MaxName == 2               \* most characters of a reaction name
MaxFileLen == 3            \* most characters of a reaction file written by hand

VARIABLES
    \* the reaction schema (fixed at construction)
    num_reactant_templates, num_product_templates,
    \* one call of enumerate_valid_reactant_orderings: arguments and generator frame
    reactants, as_mols, allow_resampling,
    gen_pc, planner_choices, gen_k, reactant_orderings_found, yielded,
    \* one call of Reactor.react: arguments, locals, phase, and what has been started
    rx_pc, rx_err, rx_input, rx_repetitions, rx_reactants, rx_raw_products,
    rx_product_idx, rx_products, ordering_search_started, engine_run,
    \* one PolymerizationReactor.propagate generator
    pg_pc, pg_err, pg_monomers, pg_reactants, pg_yielded,
    \* the templates of the schema, RDKit's reacting atoms, and the product_info_maps
    \* computation: the products done so far and the map built so far
    reactant_templates, product_templates, reacting_atoms, info_i, prod_info_map,
    \* a reaction product and its RxnProductInfo, RDKit's choice among equally short
    \* paths, and what each call of locate_intermonomer_bonds has yielded
    product, product_info, path_choice, located,
    \* one call of get_chemical_property: arguments, position in the loop over the
    \* services, the queries sent so far with their outcomes, and how the call ended
    q_pc, q_services, q_prop_name, q_keep_first_only, q_allow_null_return,
    q_fail_quietly, q_i, q_queried, q_result,
    \* a CubicIntegerLattice: its side lengths and points, and one evaluation of
    \* lex_ordered_weights against the point stored at index lat_i
    lat_pc, sidelens, points, lat_i, lat_dot,
    \* topology I/O: the molecule the caller holds (per-atom metadata and its
    \* 'metadata' property), the property as the SDF file holds it, and the
    \* per-atom metadata the molecule had when the file was written
    top_pc, mol_metadata, mol_property, sdf_property, saved_metadata,
    \* reaction files: the reaction exported, the wilds_to_R_groups argument,
    \* the characters of the file, the reaction loaded from it and the
    \* exception the load ended with
    rf_pc, rf_rxn, rf_wilds, rf_file, rf_loaded, rf_err

schemaVars == << num_reactant_templates, num_product_templates >>
genVars == << reactants, as_mols, allow_resampling,
              gen_pc, planner_choices, gen_k, reactant_orderings_found, yielded >>
rxVars == << rx_pc, rx_err, rx_input, rx_repetitions, rx_reactants, rx_raw_products,
             rx_product_idx, rx_products, ordering_search_started, engine_run >>
pgVars == << pg_pc, pg_err, pg_monomers, pg_reactants, pg_yielded >>

infoVars == << reactant_templates, product_templates, reacting_atoms, info_i, prod_info_map >>

fragVars == << product, product_info, path_choice, located >>

queryVars == << q_pc, q_services, q_prop_name, q_keep_first_only, q_allow_null_return,
                q_fail_quietly, q_i, q_queried, q_result >>

latVars == << lat_pc, sidelens, points, lat_i, lat_dot >>

topVars == << top_pc, mol_metadata, mol_property, sdf_property, saved_metadata >>

rfVars == << rf_pc, rf_rxn, rf_wilds, rf_file, rf_loaded, rf_err >>

ioVars == << latVars, topVars, rfVars >>

vars == << schemaVars, genVars, rxVars, pgVars, infoVars, fragVars, queryVars, ioVars >>

\* ------------------------------------------------------------- molecules
\* A reactant Mol: its identity (the position it has in the caller's pool) and,
\* per reactant template, the number of distinct substructure matches RDKit finds.
CountVectors(R) == [1..R -> 0..MaxCount]
\* reactant_idx is the REACTANT_INDEX_PROPNAME property of its atoms (-1: not set).
\* obj is the identity of the Python object: two names for one Mol share it, and a
\* write through one name is seen through the other.
Pools(R, n) ==
    { [i \in 1..n |-> [id |-> i, obj |-> i, counts |-> c[i], reactant_idx |-> -1]] :
         c \in [1..n -> CountVectors(R)] }

\* The pools handed to react and propagate: react reads the counts only through the
\* ordering search, so a reactant either lacks a template's group or has MaxCount.
ReactPools(R, n) ==
    { [i \in 1..n |-> [id |-> i, obj |-> i, counts |-> c[i], reactant_idx |-> -1]] :
         c \in [1..n -> [1..R -> {0, MaxCount}]] }

num_substruct_queries_distinct(mol, t) == mol.counts[t]

NoneType == [kind |-> "None", val |-> << >>]
Some(v) == [kind |-> "tuple", val |-> v]

\* ------------------------------------------------- functional-group inventory
compile_functional_group_inventory_slot0(rs) ==
    IF Len(rs) = 0 THEN << >>
    ELSE [t \in 1..num_reactant_templates |->
            [i \in 1..Len(rs) |-> num_substruct_queries_distinct(rs[i], 1)]]

\* inventory[template][reactant index] = match count; a defaultdict that gets no key
\* at all when the pool is empty
compile_functional_group_inventory(rs) ==
    IF Len(rs) = 0 THEN << >>
    ELSE [t \in 1..num_reactant_templates |->
            [i \in 1..Len(rs) |-> num_substruct_queries_distinct(rs[i], t)]]

\* ----------------------------------------------------------- DISCERNMENT solver
\* Depth-first search over the slots of the word, candidates tried in index order;
\* a candidate fills a slot when its count for the slot's symbol is positive and,
\* with unique_bins, when no earlier slot holds it.  The result is the sequence of
\* solutions in the order the search yields them.
RECURSIVE enumerate_choices_from(_, _, _, _, _)
enumerate_choices_from(inv, word, unique_bins, buffer, i) ==
    IF word = << >> THEN << buffer >>
    ELSE LET sym  == Head(word)
             bins == IF sym \in DOMAIN inv THEN inv[sym] ELSE << >>
         IN  IF i > Len(bins) THEN << >>
             ELSE (IF bins[i] > 0 /\ (unique_bins => \A j \in 1..Len(buffer) : buffer[j] # i)
                   THEN enumerate_choices_from(inv, Tail(word), unique_bins, Append(buffer, i), 1)
                   ELSE << >>)
                  \o enumerate_choices_from(inv, word, unique_bins, buffer, i + 1)

enumerate_choices(inv, word, unique_bins) ==
    enumerate_choices_from(inv, word, unique_bins, << >>, 1)

\* ------------------------------------- enumerate_valid_reactant_orderings
TemplateWord == [t \in 1..num_reactant_templates |-> t]

UniqueBins_resampled(resampling) == FALSE
UniqueBins(resampling) == ~resampling

SolverOrderings(rs, resampling) ==
    enumerate_choices(compile_functional_group_inventory(rs), TemplateWord, UniqueBins(resampling))

OrderingValue(rs, ordering, mols) ==
    IF mols THEN [s \in 1..Len(ordering) |-> rs[ordering[s]]] ELSE ordering

YieldNoneAfterLoop_always(found) == TRUE
YieldNoneAfterLoop(found) == ~found

\* the caller creates the generator; no line of its body has run yet
EnumCall ==
    /\ gen_pc = "idle"
    /\ \E n \in 0..MaxPool : \E rs \in Pools(num_reactant_templates, n) :
       \E m \in BOOLEAN : \E r \in BOOLEAN :
          /\ reactants' = rs
          /\ as_mols' = m
          /\ allow_resampling' = r
    /\ gen_pc' = "created"
    /\ UNCHANGED << schemaVars, ioVars, queryVars, planner_choices, gen_k, reactant_orderings_found, yielded,
                    rxVars, pgVars, infoVars, fragVars >>

\* first next(): the flag is cleared, the solver is built over the inventory
\* (planner_choices is what its enumeration goes on to produce), and the body runs
\* to its first yield
EnumFirst ==
    /\ gen_pc = "created"
    /\ reactant_orderings_found' = FALSE
    /\ LET choices == SolverOrderings(reactants, allow_resampling)
       IN  /\ planner_choices' = choices
           /\ IF Len(choices) > 0
              THEN /\ yielded' = Append(yielded, Some(OrderingValue(reactants, choices[1], as_mols)))
                   /\ gen_k' = 1
                   /\ gen_pc' = "yield_ordering"
              ELSE IF YieldNoneAfterLoop(FALSE)
              THEN /\ yielded' = Append(yielded, NoneType)
                   /\ gen_k' = 0
                   /\ gen_pc' = "yield_none"
              ELSE /\ gen_pc' = "exhausted"
                   /\ UNCHANGED << yielded, gen_k >>
    /\ UNCHANGED << schemaVars, ioVars, queryVars, reactants, as_mols, allow_resampling, rxVars, pgVars, infoVars, fragVars >>

\* next() while suspended at the yield inside the loop: the flag is set, then the
\* loop goes on or ends
EnumResume ==
    /\ gen_pc = "yield_ordering"
    /\ reactant_orderings_found' = TRUE
    /\ IF gen_k < Len(planner_choices)
       THEN /\ yielded' = Append(yielded,
                                 Some(OrderingValue(reactants, planner_choices[gen_k + 1], as_mols)))
            /\ gen_k' = gen_k + 1
            /\ gen_pc' = "yield_ordering"
       ELSE IF YieldNoneAfterLoop(TRUE)
       THEN /\ yielded' = Append(yielded, NoneType)
            /\ gen_pc' = "yield_none"
            /\ UNCHANGED gen_k
       ELSE /\ gen_pc' = "exhausted"
            /\ UNCHANGED << yielded, gen_k >>
    /\ UNCHANGED << schemaVars, ioVars, queryVars, reactants, as_mols, allow_resampling, planner_choices,
                    rxVars, pgVars, infoVars, fragVars >>

\* next() while suspended at "yield None": the body ends
EnumFinish ==
    /\ gen_pc = "yield_none"
    /\ gen_pc' = "exhausted"
    /\ UNCHANGED << schemaVars, ioVars, queryVars, reactants, as_mols, allow_resampling, planner_choices,
                    gen_k, reactant_orderings_found, yielded, rxVars, pgVars, infoVars, fragVars >>

\* ------------------------------------------------ valid_reactant_ordering
\* next() of a fresh enumerate_valid_reactant_orderings generator: its first element
valid_reactant_ordering(rs, mols, resampling) ==
    LET os == SolverOrderings(rs, resampling)
    IN  IF Len(os) > 0 THEN Some(OrderingValue(rs, os[1], mols)) ELSE NoneType

has_reactable_subset_unsampled(rs, resampling) ==
    valid_reactant_ordering(rs, FALSE, FALSE).kind # "None"
has_reactable_subset(rs, resampling) ==
    valid_reactant_ordering(rs, FALSE, resampling).kind # "None"

\* ------------------------------------------------------------ Reactor.react
\* The phases are the code positions of react: "validating" is the counting check,
\* "reordering" the call of valid_reactant_ordering with the copy and labelling of
\* the reactants, "executing" the call of RunReactants, "annotating" and
\* "sanitizing" the two halves of the body of the loop over the raw products.
BadNumberReactants_never(n_provided, n_required) == FALSE
BadNumberReactants(n_provided, n_required) == n_provided # n_required

ReactEnter(rs, repetitions) ==
    /\ rx_pc' = "validating"
    /\ rx_err' = "none"
    /\ rx_input' = rs
    /\ rx_repetitions' = repetitions
    /\ rx_reactants' = rs
    /\ rx_raw_products' = << >>
    /\ rx_product_idx' = 0
    /\ rx_products' = << >>
    /\ ordering_search_started' = FALSE
    /\ engine_run' = FALSE

\* a caller invokes react directly
ReactCall ==
    /\ pg_pc = "idle"
    /\ rx_pc = "idle"
    /\ \E n \in 0..MaxPool : \E rs \in ReactPools(num_reactant_templates, n) :
       \E reps \in 1..MaxRepetitions :
          ReactEnter(rs, reps)
    /\ UNCHANGED << schemaVars, ioVars, queryVars, genVars, pgVars, infoVars, fragVars >>

ReactValidate ==
    /\ rx_pc = "validating"
    /\ IF BadNumberReactants(Len(rx_reactants), num_reactant_templates)
       THEN /\ rx_pc' = "failed"
            /\ rx_err' = "BadNumberReactants"
       ELSE /\ rx_pc' = "reordering"
            /\ UNCHANGED rx_err
    /\ UNCHANGED << schemaVars, ioVars, queryVars, genVars, pgVars, infoVars, fragVars, rx_input, rx_repetitions, rx_reactants,
                    rx_raw_products, rx_product_idx, rx_products,
                    ordering_search_started, engine_run >>

\* [Chem.Mol(reactant) for reactant in reactants]: a new list of new objects, none
\* of them an object the caller holds (the caller's objects are 1..n_held)
CopyMols_aliased(ordered, n_held) == ordered
CopyMols(ordered, n_held) ==
    [s \in 1..Len(ordered) |-> [ordered[s] EXCEPT !.obj = n_held + s]]

\* Chem.Mol(reactant) for every reactant, then REACTANT_INDEX_PROPNAME set on the
\* atoms of the copies (0-based position in the ordering)
LabelledCopies(ordered) ==
    LET copies == CopyMols(ordered, Len(ordered))
    IN  [s \in 1..Len(copies) |-> [copies[s] EXCEPT !.reactant_idx = s - 1]]

\* what the caller sees of its own molecules after SetIntProp has written to the
\* objects of `written`: an object of the caller that is also in `written` shows
\* the write
SeenByCaller(held, written) ==
    [i \in 1..Len(held) |->
        IF \E s \in 1..Len(written) : written[s].obj = held[i].obj
        THEN LET s == CHOOSE k \in 1..Len(written) : written[k].obj = held[i].obj
             IN  [held[i] EXCEPT !.reactant_idx = written[s].reactant_idx]
        ELSE held[i]]

MismatchRaised_never(ordering) == FALSE
MismatchRaised(ordering) == ordering.kind = "None"

ReactReorder ==
    /\ rx_pc = "reordering"
    /\ ordering_search_started' = TRUE
    /\ LET ordering == valid_reactant_ordering(rx_reactants, TRUE, FALSE)
       IN  IF MismatchRaised(ordering)
           THEN /\ rx_pc' = "failed"
                /\ rx_err' = "ReactantTemplateMismatch"
                /\ UNCHANGED rx_reactants
           ELSE /\ rx_pc' = "executing"
                /\ rx_reactants' =
                      IF ordering.kind = "None" THEN << >> ELSE LabelledCopies(ordering.val)
                /\ UNCHANGED rx_err
    /\ rx_input' = SeenByCaller(rx_input, rx_reactants')
    /\ UNCHANGED << schemaVars, ioVars, queryVars, genVars, pgVars, infoVars, fragVars, rx_repetitions,
                    rx_raw_products, rx_product_idx, rx_products, engine_run >>

\* RunReactants(reactants, maxProducts=repetitions): at most `repetitions` product
\* sets, each with one raw product per product template; chain.from_iterable lays
\* them end to end
RawProducts(n_sets) ==
    [k \in 1..(n_sets * num_product_templates) |->
        [product_set |-> (k - 1) \div num_product_templates,
         template    |-> (k - 1) % num_product_templates,
         info_idx    |-> -1,
         sanitized   |-> FALSE]]

ReactExecute ==
    /\ rx_pc = "executing"
    /\ engine_run' = TRUE
    /\ \E n_sets \in 0..rx_repetitions :
          /\ rx_raw_products' = RawProducts(n_sets)
          /\ rx_pc' = IF n_sets = 0 THEN "done" ELSE "annotating"
    /\ rx_product_idx' = 0
    /\ UNCHANGED << schemaVars, ioVars, queryVars, genVars, pgVars, infoVars, fragVars, rx_err, rx_input, rx_repetitions,
                    rx_reactants, rx_products, ordering_search_started >>

\* the per-product tables of the schema have one entry per product template
HasProductInfo(product_idx) == product_idx \in 0..(num_product_templates - 1)

\* apply_atom_info_to_product and apply_bond_info_to_product, both looked up by the
\* position of the product in the flattened sequence
ReactAnnotate ==
    /\ rx_pc = "annotating"
    /\ IF HasProductInfo(rx_product_idx)
       THEN /\ rx_raw_products' =
                  [rx_raw_products EXCEPT ![rx_product_idx + 1].info_idx = rx_product_idx]
            /\ rx_pc' = "sanitizing"
            /\ UNCHANGED rx_err
       ELSE /\ rx_pc' = "failed"
            /\ rx_err' = "KeyError"
            /\ UNCHANGED rx_raw_products
    /\ UNCHANGED << schemaVars, ioVars, queryVars, genVars, pgVars, infoVars, fragVars, rx_input, rx_repetitions, rx_reactants,
                    rx_product_idx, rx_products, ordering_search_started, engine_run >>

\* the for loop over the flattened raw products has another product to take up
LoopContinues_never(product_idx, n_raw) == FALSE
LoopContinues(product_idx, n_raw) == product_idx + 1 < n_raw

\* Chem.SanitizeMol either normalises the product or raises; then products.append
ReactSanitize ==
    /\ rx_pc = "sanitizing"
    /\ \E ok \in BOOLEAN :
          IF ok
          THEN /\ rx_products' =
                     Append(rx_products,
                            [rx_raw_products[rx_product_idx + 1] EXCEPT !.sanitized = TRUE])
               /\ rx_product_idx' = rx_product_idx + 1
               /\ rx_pc' = IF LoopContinues(rx_product_idx, Len(rx_raw_products))
                           THEN "annotating" ELSE "done"
               /\ UNCHANGED rx_err
          ELSE /\ rx_pc' = "failed"
               /\ rx_err' = "SanitizeError"
               /\ UNCHANGED << rx_products, rx_product_idx >>
    /\ UNCHANGED << schemaVars, ioVars, queryVars, genVars, pgVars, infoVars, fragVars, rx_input, rx_repetitions, rx_reactants,
                    rx_raw_products, ordering_search_started, engine_run >>

\* what the call hands back: the list of line 81 once the loop is over, nothing
\* while it runs or after an exception has left it
ReactReturned == IF rx_pc = "done" THEN Some(rx_products) ELSE NoneType

ReactSteps ==
    ReactValidate \/ ReactReorder \/ ReactExecute \/ ReactAnnotate \/ ReactSanitize

\* ------------------------------------------- PolymerizationReactor.propagate
\* propagate is a generator: "created" before its first next(), "reacting" while
\* the react call of the loop runs, "suspended" at its yield, "ended" once its body
\* has finished (StopIteration), "raised" once an exception has left it.
MismatchCaught_any(err) == TRUE
MismatchCaught_never(err) == FALSE
MismatchCaught(err) == err = "ReactantTemplateMismatch"

\* the parameters produce_fragments requires and the ones the call in the loop binds
ProduceFragmentsRequired == {"product", "product_info"}
ProduceFragmentsBound == {"product", "separate"}

PropagateCall ==
    /\ pg_pc = "idle"
    /\ rx_pc = "idle"
    /\ \E n \in 0..MaxPool : \E monomers \in ReactPools(num_reactant_templates, n) :
          /\ pg_monomers' = monomers
          /\ pg_reactants' = monomers
    /\ pg_pc' = "created"
    /\ pg_err' = "none"
    /\ pg_yielded' = << >>
    /\ UNCHANGED << schemaVars, ioVars, queryVars, genVars, rxVars, infoVars, fragVars >>

\* next(): from the start the pool is the monomers; from the yield the fragments of
\* the step before become the pool; then react(reactants, repetitions=1) is entered
PropagateNext ==
    /\ pg_pc \in {"created", "suspended"}
    /\ LET pool == IF pg_pc = "suspended"
                   THEN pg_yielded[Len(pg_yielded)].fragments
                   ELSE pg_reactants
       IN  /\ pg_reactants' = pool
           /\ ReactEnter(pool, 1)
    /\ pg_pc' = "reacting"
    /\ UNCHANGED << schemaVars, ioVars, queryVars, genVars, infoVars, fragVars, pg_err, pg_monomers, pg_yielded >>

\* react has returned or raised: the except clause, the fragment loop and the yield.
\* The fragment loop calls produce_fragments once per adduct, and the call fails
\* with a TypeError when a required parameter is left unbound.
PropagateAfterReact ==
    /\ pg_pc = "reacting"
    /\ rx_pc \in {"done", "failed"}
    /\ IF rx_pc = "failed"
       THEN IF MismatchCaught(rx_err)
            THEN /\ pg_pc' = "ended"
                 /\ UNCHANGED << pg_err, pg_yielded >>
            ELSE /\ pg_pc' = "raised"
                 /\ pg_err' = rx_err
                 /\ UNCHANGED pg_yielded
       ELSE IF rx_products # << >> /\ ~(ProduceFragmentsRequired \subseteq ProduceFragmentsBound)
            THEN /\ pg_pc' = "raised"
                 /\ pg_err' = "TypeError"
                 /\ UNCHANGED pg_yielded
            ELSE /\ pg_pc' = "suspended"
                 /\ pg_yielded' = Append(pg_yielded, [adducts |-> rx_products, fragments |-> << >>])
                 /\ UNCHANGED pg_err
    /\ UNCHANGED << schemaVars, ioVars, queryVars, genVars, infoVars, fragVars, rxVars, pg_monomers, pg_reactants >>

\* ------------------------------------------------------------- templates
\* A template Mol: atoms[a + 1] is the atom map number of the atom with index a
\* (0: unmapped), bonds[b + 1] the pair of atom indices the bond with index b joins.
AtomIds(mol) == 0..(Len(mol.atoms) - 1)
BondIds(mol) == 0..(Len(mol.bonds) - 1)
GetAtomMapNum(mol, a) == mol.atoms[a + 1]

\* the index of the bond between two atoms, -1 for None
GetBondBetweenAtoms(mol, a1, a2) ==
    LET hits == { b \in BondIds(mol) :
                    mol.bonds[b + 1] = << a1, a2 >> \/ mol.bonds[b + 1] = << a2, a1 >> }
    IN  IF hits = {} THEN -1 ELSE CHOOSE b \in hits : TRUE

Range(f) == { f[x] : x \in DOMAIN f }

RECURSIVE Ascending(_)
Ascending(S) ==
    IF S = {} THEN << >>
    ELSE LET m == CHOOSE x \in S : \A y \in S : x <= y
         IN  << m >> \o Ascending(S \ {m})

\* itertools.combinations(items, 2), as pairs of positions (i, j) with i < j
PairsInOrder(items) ==
    { p \in (1..Len(items)) \X (1..Len(items)) : p[1] < p[2] }

\* ---------------------------------------------------------- rxn info methods
\* dict comprehension over the reactant templates in order: the last template that
\* holds a nonzero map number is the one recorded (0-based template index)
map_nums_to_reactant_idxs ==
    LET holds(t) == Range(reactant_templates[t].atoms) \ {0}
        nums == UNION { holds(t) : t \in 1..Len(reactant_templates) }
    IN  [m \in nums |->
            (CHOOSE t \in 1..Len(reactant_templates) :
                /\ m \in holds(t)
                /\ \A u \in 1..Len(reactant_templates) : m \in holds(u) => u <= t) - 1]

\* the map numbers of the reacting atoms, reactant template after reactant template
RECURSIVE reacting_atom_map_nums_from(_)
reacting_atom_map_nums_from(t) ==
    IF t > Len(reactant_templates) THEN << >>
    ELSE [k \in 1..Len(reacting_atoms[t]) |->
             GetAtomMapNum(reactant_templates[t], reacting_atoms[t][k])]
         \o reacting_atom_map_nums_from(t + 1)

reacting_atom_map_nums == reacting_atom_map_nums_from(1)

\* the map numbers of the atoms of a Mol, in atom order
ordered_map_nums(mol) == mol.atoms

\* the indices of the atoms that carry the given map numbers, in the order given
atom_ids_by_map_nums(mol, map_nums) ==
    [k \in 1..Len(map_nums) |->
        CHOOSE a \in AtomIds(mol) : GetAtomMapNum(mol, a) = map_nums[k]]

\* bond index -> the pair of atom indices, for every pair of the given atoms that a
\* bond joins
get_bonded_pairs_adjacent(mol, atom_ids) ==
    LET pairs  == { p \in PairsInOrder(atom_ids) : p[2] = p[1] + 1 }
        bond(p) == GetBondBetweenAtoms(mol, atom_ids[p[1]], atom_ids[p[2]])
        found  == { p \in pairs : bond(p) # -1 }
    IN  [b \in { bond(p) : p \in found } |->
            LET p == CHOOSE q \in found : bond(q) = b
            IN  << atom_ids[p[1]], atom_ids[p[2]] >>]

get_bonded_pairs(mol, atom_ids) ==
    LET pairs  == PairsInOrder(atom_ids)
        bond(p) == GetBondBetweenAtoms(mol, atom_ids[p[1]], atom_ids[p[2]])
        found  == { p \in pairs : bond(p) # -1 }
    IN  [b \in { bond(p) : p \in found } |->
            LET p == CHOOSE q \in found : bond(q) = b
            IN  << atom_ids[p[1]], atom_ids[p[2]] >>]

get_bonded_pairs_by_map_nums(mol, map_nums) ==
    get_bonded_pairs(mol, atom_ids_by_map_nums(mol, map_nums))

\* the test of the if in the loop over the bonded pairs of reactive atoms
BondWasModified_always(map_num_1, map_num_2) == TRUE
BondWasModified(map_num_1, map_num_2) ==
    map_nums_to_reactant_idxs[map_num_1] = map_nums_to_reactant_idxs[map_num_2]

\* one iteration of the loop of product_info_maps: the RxnProductInfo of product i
RxnProductInfo(i, product_template) ==
    LET reactive == SelectSeq(reacting_atom_map_nums,
                              LAMBDA m : m \in Range(ordered_map_nums(product_template)))
        pairs    == get_bonded_pairs_by_map_nums(product_template, reactive)
        map_num_pair(b) == << GetAtomMapNum(product_template, pairs[b][1]),
                              GetAtomMapNum(product_template, pairs[b][2]) >>
        modified == { b \in DOMAIN pairs :
                        BondWasModified(map_num_pair(b)[1], map_num_pair(b)[2]) }
    IN  [prod_num |-> i,
         reactive_atom_map_nums   |-> reactive,
         new_bond_ids_to_map_nums |-> [b \in (DOMAIN pairs) \ modified |-> map_num_pair(b)],
         mod_bond_ids_to_map_nums |-> [b \in modified |-> map_num_pair(b)]]

\* product_info_maps, one product template per step, from 0 to the last
ProductInfoStep ==
    /\ info_i < Len(product_templates)
    /\ prod_info_map' =
          [i \in (DOMAIN prod_info_map) \cup {info_i} |->
              IF i = info_i THEN RxnProductInfo(info_i, product_templates[info_i + 1])
              ELSE prod_info_map[i]]
    /\ info_i' = info_i + 1
    /\ UNCHANGED << schemaVars, ioVars, queryVars, genVars, rxVars, pgVars, fragVars,
                    reactant_templates, product_templates, reacting_atoms >>

\* ------------------------------------------------------------ fragment.py
\* A product Mol: atoms[a + 1] tells whether atom a matches
\* HEAVY_FORMER_LINKER_QUERY_ATOM (a heavy atom with the property was_dummy),
\* bonds[b + 1] is the pair of atom indices bond b joins.
bridgehead_atom_ids(mol) == Ascending({ a \in AtomIds(mol) : mol.atoms[a + 1] })

Bonded(mol, a1, a2) ==
    \E b \in BondIds(mol) : mol.bonds[b + 1] = << a1, a2 >> \/ mol.bonds[b + 1] = << a2, a1 >>

RECURSIVE SimplePaths(_, _, _)
SimplePaths(mol, prefix, target) ==
    LET last == prefix[Len(prefix)]
    IN  IF last = target THEN { prefix }
        ELSE UNION { SimplePaths(mol, Append(prefix, nb), target) :
                        nb \in { x \in AtomIds(mol) :
                                   Bonded(mol, last, x) /\ x \notin Range(prefix) } }

RECURSIVE PathCode(_, _)
PathCode(path, base) ==
    IF path = << >> THEN 0
    ELSE PathCode(SubSeq(path, 1, Len(path) - 1), base) * base + path[Len(path)]

\* Chem.GetShortestPath: the atoms of one path with the fewest bonds between two
\* atoms (which one, among equally short paths, is RDKit's choice), the empty tuple
\* when there is none
GetShortestPath(mol, a1, a2) ==
    LET all      == SimplePaths(mol, << a1 >>, a2)
        shortest == { q \in all : \A r \in all : Len(q) <= Len(r) }
        code(q)  == PathCode(q, Len(mol.atoms))
    IN  IF all = {} THEN << >>
        ELSE IF path_choice = "first"
        THEN CHOOSE q \in shortest : \A r \in shortest : code(q) <= code(r)
        ELSE CHOOSE q \in shortest : \A r \in shortest : code(q) >= code(r)

\* the indices of the bonds along the shortest path between two atoms
get_shortest_path_bonds(mol, a1, a2) ==
    LET path == GetShortestPath(mol, a1, a2)
    IN  { GetBondBetweenAtoms(mol, path[k], path[k + 1]) : k \in 1..(Len(path) - 1) }

\* the bonds ReseparateRGroups tries on every path: the keys of new_bond_ids_to_map_nums
CandidateBondIds_classified(info) == Ascending(info.new \cup info.mod)
CandidateBondIds(info) == Ascending(info.new)

\* ReseparateRGroups._locate_intermonomer_bonds: for every pair of bridgeheads, for
\* every new bond, the bond is yielded when it is on the pair's shortest path
RECURSIVE locate_over_bonds(_, _, _)
locate_over_bonds(cands, path_bonds, k) ==
    IF k > Len(cands) THEN << >>
    ELSE (IF cands[k] \in path_bonds THEN << cands[k] >> ELSE << >>)
         \o locate_over_bonds(cands, path_bonds, k + 1)

RECURSIVE locate_over_pairs(_, _, _, _, _)
locate_over_pairs(mol, cands, bh, i, j) ==
    IF i >= Len(bh) THEN << >>
    ELSE IF j > Len(bh) THEN locate_over_pairs(mol, cands, bh, i + 1, i + 2)
    ELSE locate_over_bonds(cands, get_shortest_path_bonds(mol, bh[i], bh[j]), 1)
         \o locate_over_pairs(mol, cands, bh, i, j + 1)

_locate_intermonomer_bonds(mol, info) ==
    locate_over_pairs(mol, CandidateBondIds(info), bridgehead_atom_ids(mol), 1, 2)

\* locate_intermonomer_bonds: the bonds of the strategy, skipping those already
\* yielded (bonds_already_cut)
RECURSIVE yield_unless_cut(_, _)
yield_unless_cut(bond_ids, bonds_already_cut) ==
    IF bond_ids = << >> THEN << >>
    ELSE IF Head(bond_ids) \notin bonds_already_cut
    THEN << Head(bond_ids) >>
         \o yield_unless_cut(Tail(bond_ids), bonds_already_cut \cup { Head(bond_ids) })
    ELSE yield_unless_cut(Tail(bond_ids), bonds_already_cut)

locate_intermonomer_bonds_repeating(mol, info) == _locate_intermonomer_bonds(mol, info)
locate_intermonomer_bonds(mol, info) ==
    yield_unless_cut(_locate_intermonomer_bonds(mol, info), {})

\* one call of locate_intermonomer_bonds on the product, run to exhaustion
LocateCall ==
    /\ Len(located) < 2
    /\ located' = Append(located, locate_intermonomer_bonds(product, product_info))
    /\ UNCHANGED << schemaVars, ioVars, queryVars, genVars, rxVars, pgVars, infoVars,
                    product, product_info, path_choice >>

SolverIdle ==
    /\ reactants = << >>
    /\ as_mols = TRUE
    /\ allow_resampling = FALSE
    /\ gen_pc = "idle"
    /\ planner_choices = << >>
    /\ gen_k = 0
    /\ reactant_orderings_found = FALSE
    /\ yielded = << >>

ReactIdle ==
    /\ rx_pc = "idle"
    /\ rx_err = "none"
    /\ rx_input = << >>
    /\ rx_repetitions = 1
    /\ rx_reactants = << >>
    /\ rx_raw_products = << >>
    /\ rx_product_idx = 0
    /\ rx_products = << >>
    /\ ordering_search_started = FALSE
    /\ engine_run = FALSE

PropagateIdle ==
    /\ pg_pc = "idle"
    /\ pg_err = "none"
    /\ pg_monomers = << >>
    /\ pg_reactants = << >>
    /\ pg_yielded = << >>

InfoIdle ==
    /\ reactant_templates = << >>
    /\ product_templates = << >>
    /\ reacting_atoms = << >>
    /\ info_i = 0
    /\ prod_info_map = << >>

FragIdle ==
    /\ product = [atoms |-> << >>, bonds |-> << >>]
    /\ product_info = [new |-> {}, mod |-> {}]
    /\ path_choice = "first"
    /\ located = << >>

\* ------------------------------------------------ chemical database queries
\* The registered strategies, by service_name, in the order their classes are defined.
SubclassRegistry == << "NIH CACTUS CIR", "PubChem" >>

\* An entry of the services argument: an instance of a strategy, a strategy class, or
\* an object that is neither.
ServiceArgs ==
    { [strategy |-> n, is_type |-> t] : n \in Range(SubclassRegistry), t \in BOOLEAN }
       \cup { [strategy |-> "not a strategy", is_type |-> FALSE] }

\* property names: one only CACTUS lists, one only PubChem lists, one both list
PropNames == {"mw", "molecular_weight", "iupac_name"}

available_properties(service_name) ==
    IF service_name = "NIH CACTUS CIR"
    THEN {"mw", "iupac_name"}
    ELSE {"molecular_weight", "iupac_name"}

\* What a backend answers.  cirpy.resolve gives None, a string or a list of strings
\* (never an empty one: no result at all is None);
\* pcp.get_properties raises PubChemPyError or gives a list of dicts, has[k] telling
\* whether dict k holds the property asked for.
BackendAnswers(service_name) ==
    IF service_name = "NIH CACTUS CIR"
    THEN { [shape |-> "None", has |-> << >>], [shape |-> "str", has |-> << >>] }
            \cup { [shape |-> "list", has |-> [k \in 1..n |-> TRUE]] : n \in 1..MaxResponse }
    ELSE { [shape |-> "error", has |-> << >>] }
            \cup UNION { { [shape |-> "list", has |-> h] : h \in [1..n -> BOOLEAN] } :
                           n \in 0..MaxResponse }

\* An outcome of a query: a value (its Python shape, and the entries of the backend's
\* answer it holds, by position) or the exception raised.
Raised(exception) == [kind |-> exception, shape |-> "None", items |-> << >>]
Value(shape, items) == [kind |-> "value", shape |-> shape, items |-> items]

RECURSIVE Filtered(_, _)
Filtered(has, k) ==
    IF k > Len(has) THEN << >>
    ELSE (IF has[k] THEN << k >> ELSE << >>) \o Filtered(has, k + 1)

_get_property(service_name, answer) ==
    IF service_name = "NIH CACTUS CIR"
    THEN Value(answer.shape, [k \in 1..Len(answer.has) |-> k])
    ELSE IF answer.shape = "error"
    THEN Raised("HTTPError")
    ELSE IF Len(answer.has) > 0
    THEN Value("list", Filtered(answer.has, 1))
    ELSE Value("list", << >>)

validate_property(service_name, prop_name) == prop_name \in available_properties(service_name)

\* isinstance(prop_val, Container) and not isinstance(prop_val, str)
IsContainer(prop_val) == prop_val.shape = "list"

\* the calls get_property makes, in order: the validation raises before the backend
\* query is sent
get_property_calls_query_first(service_name, prop_name) ==
    << "_get_property", "validate_property" >>
get_property_calls(service_name, prop_name) ==
    IF ~validate_property(service_name, prop_name)
    THEN << "validate_property" >>
    ELSE << "validate_property", "_get_property" >>

get_property(service_name, prop_name, answer, keep_first_only, allow_null_return) ==
    IF ~validate_property(service_name, prop_name)
    THEN Raised("InvalidPropertyError")
    ELSE LET prop_val == _get_property(service_name, answer)
         IN  IF prop_val.kind # "value" THEN prop_val
             ELSE IF prop_val.shape # "None"
             THEN IF keep_first_only /\ IsContainer(prop_val)
                  THEN IF prop_val.items = << >>
                       THEN Raised("IndexError")
                       ELSE Value("item", << prop_val.items[1] >>)
                  ELSE prop_val
             ELSE IF ~allow_null_return
             THEN Raised("NullPropertyResponse")
             ELSE prop_val

\* ------------------------------------------------------ get_chemical_property
\* "looping" is the for loop with q_i the 1-based position of the service to try
\* next, "returned" and "raised" the two ways the call ends; q_result is the value
\* returned or the exception raised.
CaughtByLookup_transport_only(exception) == exception = "HTTPError"
CaughtByLookup(exception) ==
    exception \in {"HTTPError", "InvalidPropertyError", "NullPropertyResponse"}

QuerySucceeded_never(outcome) == FALSE
QuerySucceeded(outcome) == outcome.kind = "value"

AllFailedOutcome(fail_quietly) ==
    IF fail_quietly THEN Value("None", << >>) ELSE Raised("ValueError")

\* the call, the default for services=None and the check for an empty collection
LookupEnter ==
    /\ q_pc = "idle"
    /\ \E n \in 0..MaxServices : \E given \in [1..n -> ServiceArgs] : \E is_none \in BOOLEAN :
          LET services == IF is_none
                          THEN [k \in 1..Len(SubclassRegistry) |->
                                   [strategy |-> SubclassRegistry[k], is_type |-> FALSE]]
                          ELSE given
          IN  /\ q_services' = services
              /\ IF services = << >>
                 THEN /\ q_pc' = "raised"
                      /\ q_result' = Raised("IndexError")
                      /\ q_i' = 0
                 ELSE /\ q_pc' = "looping"
                      /\ q_i' = 1
                      /\ UNCHANGED q_result
    /\ q_prop_name' \in PropNames
    /\ q_keep_first_only' \in BOOLEAN
    /\ q_allow_null_return' \in BOOLEAN
    /\ q_fail_quietly' \in BOOLEAN
    /\ UNCHANGED << schemaVars, ioVars, genVars, rxVars, pgVars, infoVars, fragVars, q_queried >>

\* one pass of the loop body: the type checks, the query, and return or continue.
\* The message of the TypeError reads service.__name, which an object need not have.
LookupQuery ==
    /\ q_pc = "looping"
    /\ q_i <= Len(q_services)
    /\ LET service == q_services[q_i]
       IN  IF service.strategy \notin Range(SubclassRegistry)
           THEN /\ q_pc' = "raised"
                /\ \E exception \in {"TypeError", "AttributeError"} :
                      q_result' = Raised(exception)
                /\ UNCHANGED << q_i, q_queried >>
           ELSE \E answer \in BackendAnswers(service.strategy) :
                   LET outcome == get_property(service.strategy, q_prop_name, answer,
                                               q_keep_first_only, q_allow_null_return)
                   IN  /\ q_queried' = Append(q_queried,
                                               [idx |-> q_i, outcome |-> outcome,
                                                calls |-> get_property_calls(service.strategy,
                                                                             q_prop_name)])
                       /\ IF QuerySucceeded(outcome)
                          THEN /\ q_pc' = "returned"
                               /\ q_result' = outcome
                               /\ UNCHANGED q_i
                          ELSE IF CaughtByLookup(outcome.kind)
                          THEN /\ q_i' = q_i + 1
                               /\ UNCHANGED << q_pc, q_result >>
                          ELSE /\ q_pc' = "raised"
                               /\ q_result' = outcome
                               /\ UNCHANGED q_i
    /\ UNCHANGED << schemaVars, ioVars, genVars, rxVars, pgVars, infoVars, fragVars, q_services,
                    q_prop_name, q_keep_first_only, q_allow_null_return, q_fail_quietly >>

\* the else clause of the loop: no service has returned a value
LookupGiveUp ==
    /\ q_pc = "looping"
    /\ q_i > Len(q_services)
    /\ q_result' = AllFailedOutcome(q_fail_quietly)
    /\ q_pc' = IF AllFailedOutcome(q_fail_quietly).kind = "value" THEN "returned" ELSE "raised"
    /\ UNCHANGED << schemaVars, ioVars, genVars, rxVars, pgVars, infoVars, fragVars, q_services,
                    q_prop_name, q_keep_first_only, q_allow_null_return, q_fail_quietly,
                    q_i, q_queried >>

\* ------------------------------------------------------- integer lattices
\* itertools.product(range(d) for d in dims): nested loops, the last range innermost
RECURSIVE PrefixEach(_, _, _)
PrefixEach(a, d, rest) ==
    IF a >= d THEN << >>
    ELSE [k \in 1..Len(rest) |-> << a >> \o rest[k]] \o PrefixEach(a + 1, d, rest)

RECURSIVE cartesian_product(_)
cartesian_product(dims) ==
    IF dims = << >> THEN << << >> >>
    ELSE PrefixEach(0, Head(dims), cartesian_product(Tail(dims)))

\* the array of points: row i (0-based) is generate_int_lattice(dims)[i + 1] here
generate_int_lattice(dims) == cartesian_product(dims)

RECURSIVE cumprod(_)
cumprod(a) ==
    IF a = << >> THEN << >>
    ELSE LET before == cumprod(SubSeq(a, 1, Len(a) - 1))
         IN  Append(before, (IF before = << >> THEN 1 ELSE before[Len(before)]) * a[Len(a)])

capacity(lens) == IF lens = << >> THEN 1 ELSE cumprod(lens)[Len(lens)]

\* np.concatenate(([1], np.cumprod(self.sidelens)[:-1]))
lex_ordered_weights(lens) ==
    << 1 >> \o SubSeq(cumprod(lens), 1, Len(lens) - 1)

RECURSIVE Dot(_, _)
Dot(w, p) ==
    IF w = << >> THEN 0 ELSE Head(w) * Head(p) + Dot(Tail(w), Tail(p))

\* CubicIntegerLattice(sidelens): the points are generated
LatticeInit ==
    /\ lat_pc = "new"
    /\ points' = generate_int_lattice(sidelens)
    /\ lat_pc' = "built"
    /\ UNCHANGED << schemaVars, genVars, rxVars, pgVars, infoVars, fragVars, queryVars, topVars, rfVars,
                    sidelens, lat_i, lat_dot >>

\* a caller maps the point stored at the next index through lex_ordered_weights
LatticeMapPoint ==
    /\ lat_pc \in {"built", "mapped"}
    /\ lat_i + 1 < Len(points)
    /\ lat_i' = lat_i + 1
    /\ lat_dot' = Dot(lex_ordered_weights(sidelens), points[lat_i' + 1])
    /\ lat_pc' = "mapped"
    /\ UNCHANGED << schemaVars, genVars, rxVars, pgVars, infoVars, fragVars, queryVars, topVars, rfVars,
                    sidelens, points >>

LatticeIdle ==
    /\ lat_pc = "idle"
    /\ sidelens = << >>
    /\ points = << >>
    /\ lat_i = -1
    /\ lat_dot = 0

\* ------------------------------------------------------------ topology I/O
\* Atom metadata is a dict of str keys to int or str values: a set of entries
\* with distinct keys.  Atom i (1-based) here is molecule_atom_index i - 1.
MetadataKeys == {"residue_name"}

MetadataValues == {[type |-> "int", text |-> "1"], [type |-> "str", text |-> "1"]}

AtomMetadata ==
    {{}} \cup {{[key |-> k, value |-> v]} : k \in MetadataKeys, v \in MetadataValues}

NoProperty == [kind |-> "absent", items |-> {}]

\* str(value) of a property when the molecule is written, and literal_eval of
\* that text: a str value is written between quotes, an int as its digits
repr(v) == [quoted |-> (v.type = "str"), body |-> v.text]

literal(t) == [type |-> (IF t.quoted THEN "str" ELSE "int"), text |-> t.body]

to_text(prop) ==
    IF prop.kind = "dict"
    THEN [kind |-> "str",
          items |-> {[atom |-> it.atom,
                      metadata |-> {[key |-> e.key, value |-> repr(e.value)] : e \in it.metadata}]
                     : it \in prop.items}]
    ELSE prop

literal_eval(prop) ==
    [kind |-> "dict",
     items |-> {[atom |-> it.atom,
                 metadata |-> {[key |-> e.key, value |-> literal(e.value)] : e \in it.metadata}]
                : it \in prop.items}]

\* dict.update
update(old, new) ==
    {e \in old : \A n \in new : n.key # e.key} \cup new

\* package_atom_metadata of a molecule with the given metadata and property:
\* the property of the molecule afterwards
package_atom_metadata(metadata, property) ==
    LET packaged_mdat ==
            {[atom |-> a, metadata |-> metadata[a]] : a \in {b \in DOMAIN metadata : metadata[b] # {}}}
    IN  IF packaged_mdat # {}
        THEN [kind |-> "dict", items |-> packaged_mdat]
        ELSE property

\* unpackage_atom_metadata: the per-atom metadata of the molecule afterwards
unpackage_atom_metadata(metadata, property) ==
    IF property.kind = "absent" \/ property.items = {} THEN metadata
    ELSE LET packaged_mdat == IF property.kind = "str" THEN literal_eval(property) ELSE property
         IN  [a \in DOMAIN metadata |->
                 IF \E it \in packaged_mdat.items : it.atom = a
                 THEN update(metadata[a], (CHOOSE it \in packaged_mdat.items : it.atom = a).metadata)
                 ELSE metadata[a]]

\* the caller changes the metadata of one atom of the molecule it holds
TopEditAtom ==
    /\ top_pc \in {"held", "saved", "loaded"}
    /\ \E a \in DOMAIN mol_metadata, m \in AtomMetadata :
          /\ m # mol_metadata[a]
          /\ mol_metadata' = [mol_metadata EXCEPT ![a] = m]
    /\ top_pc' = "held"
    /\ UNCHANGED << schemaVars, genVars, rxVars, pgVars, infoVars, fragVars, queryVars, latVars, rfVars,
                    mol_property, sdf_property, saved_metadata >>

\* topology_to_sdf: a copy of the molecule is packaged and written
topology_to_sdf ==
    /\ top_pc \in {"held", "saved", "loaded"}
    /\ sdf_property' = to_text(package_atom_metadata(mol_metadata, mol_property))
    /\ saved_metadata' = mol_metadata
    /\ top_pc' = "saved"
    /\ UNCHANGED << schemaVars, genVars, rxVars, pgVars, infoVars, fragVars, queryVars, latVars, rfVars,
                    mol_metadata, mol_property >>

\* topology_from_sdf: the molecule read has the atoms of the one written, no
\* atom metadata, and the properties of the file; a copy of it is unpackaged
topology_from_sdf ==
    /\ top_pc \in {"saved", "held", "loaded"}
    /\ saved_metadata # << >>
    /\ mol_property' = sdf_property
    /\ mol_metadata' = unpackage_atom_metadata([a \in DOMAIN saved_metadata |-> {}], sdf_property)
    /\ top_pc' = "loaded"
    /\ UNCHANGED << schemaVars, genVars, rxVars, pgVars, infoVars, fragVars, queryVars, latVars, rfVars,
                    sdf_property, saved_metadata >>

TopIdle ==
    /\ top_pc = "idle"
    /\ mol_metadata = << >>
    /\ mol_property = NoProperty
    /\ sdf_property = NoProperty
    /\ saved_metadata = << >>

\* ----------------------------------------------------------- reaction files
\* Text is a sequence of characters; TAB and NL are the tab and the line feed.
TAB == "TAB"

NL == "NL"

NameChars == {TAB, NL, "a"}

TextsUpTo(n) == UNION {[1..k -> NameChars] : k \in 0..n}

\* the _rxnname attribute: unset, a str, or None
NameUnset == [kind |-> "unset", chars |-> << >>]

NameNone == [kind |-> "None", chars |-> << >>]

NameStr(chars) == [kind |-> "str", chars |-> chars]

\* the rxnname property: getattr(self, '_rxnname', '')
rxnname(rxn) == IF rxn.name.kind = "unset" THEN NameStr(<< >>) ELSE rxn.name

\* f'{self.rxnname}'
Formatted(name) == IF name.kind = "None" THEN << "N", "o", "n", "e" >> ELSE name.chars

RECURSIVE Concat(_)
Concat(lines) == IF lines = << >> THEN << >> ELSE Head(lines) \o Concat(Tail(lines))

\* iteration of a text by lines, each line keeping its line feed
RECURSIVE Lines(_)
Lines(text) ==
    IF text = << >> THEN << >>
    ELSE IF \E i \in 1..Len(text) : text[i] = NL
         THEN LET i == CHOOSE j \in 1..Len(text) :
                          text[j] = NL /\ \A k \in 1..(j - 1) : text[k] # NL
              IN  << SubSeq(text, 1, i) >> \o Lines(SubSeq(text, i + 1, Len(text)))
         ELSE << text >>

Digit(n) == << "0", "1", "2", "3", "4", "5" >>[n + 1]

TemplateAtoms == {"C", "*"}

\* rdChemReactions.ReactionToRxnBlock: header, empty name line, counts line,
\* then one molecule line per reactant and per product template
ReactionToRxnBlock(rxn) ==
    << "$RXN", NL >> \o << NL >>
        \o << Digit(Len(rxn.reactants)), Digit(Len(rxn.products)), NL >>
        \o Concat([i \in 1..Len(rxn.reactants) |-> << rxn.reactants[i], NL >>])
        \o Concat([i \in 1..Len(rxn.products) |-> << rxn.products[i], NL >>])

\* str.replace('*', 'R')
replace_wilds(text) == [i \in 1..Len(text) |-> IF text[i] = "*" THEN "R" ELSE text[i]]

_RXNNAME_LINE_NO == 1

\* to_rxnfile: the characters written to the file
to_rxnfile(rxn, wilds_to_R_groups) ==
    LET block == ReactionToRxnBlock(rxn)
        rxn_block == IF wilds_to_R_groups THEN replace_wilds(block) ELSE block
        lines == Lines(rxn_block)
    IN  Concat([i \in 1..Len(lines) |->
                   IF i - 1 = _RXNNAME_LINE_NO
                   THEN << TAB, TAB, TAB >> \o Formatted(rxnname(rxn)) \o << NL >>
                   ELSE lines[i]])

\* a file rdChemReactions.ReactionFromRxnFile reads as a reaction block
IsDigit(c) == \E n \in 0..5 : c = Digit(n)

Number(c) == CHOOSE n \in 0..5 : c = Digit(n)

WellFormed(text) ==
    LET lines == Lines(text)
    IN  /\ Len(lines) >= 3
        /\ lines[1] = << "$RXN", NL >>
        /\ lines[2][Len(lines[2])] = NL
        /\ Len(lines[3]) = 3 /\ IsDigit(lines[3][1]) /\ IsDigit(lines[3][2]) /\ lines[3][3] = NL
        /\ Len(lines) = 3 + Number(lines[3][1]) + Number(lines[3][2])
        /\ \A i \in 4..Len(lines) :
              Len(lines[i]) = 2 /\ lines[i][1] \in {"C", "*", "R"} /\ lines[i][2] = NL

\* an R group is read as the wildcard atom it was written for
ReadAtom(c) == IF c = "R" THEN "*" ELSE c

ReactionFromRxnFile(text) ==
    LET lines == Lines(text)
        nr == Number(lines[3][1])
    IN  [name |-> NameUnset,
         reactants |-> [i \in 1..nr |-> ReadAtom(lines[3 + i][1])],
         products |-> [i \in 1..(Len(lines) - 3 - nr) |-> ReadAtom(lines[3 + nr + i][1])]]

\* RXNNAME_RE = '^\t*(?P<rxnname>.*?)\n$' matched against one line of the file
RXNNAME_RE_matches(line) == line # << >> /\ line[Len(line)] = NL

RECURSIVE StripTabs(_)
StripTabs(text) ==
    IF text # << >> /\ Head(text) = TAB THEN StripTabs(Tail(text)) ELSE text

RXNNAME_RE_group_keeping_tabs(line) == SubSeq(line, 1, Len(line) - 1)

RXNNAME_RE_group(line) == StripTabs(SubSeq(line, 1, Len(line) - 1))

\* rxnname_from_rxnfile: a name, None when the loop ends without returning, or
\* the AttributeError of re.match(...).group when the line does not match
rxnname_from_rxnfile(text) ==
    LET lines == Lines(text)
    IN  IF Len(lines) < _RXNNAME_LINE_NO + 1 THEN [err |-> "none", name |-> NameNone]
        ELSE IF ~RXNNAME_RE_matches(lines[_RXNNAME_LINE_NO + 1])
             THEN [err |-> "AttributeError", name |-> NameNone]
             ELSE [err |-> "none", name |-> NameStr(RXNNAME_RE_group(lines[_RXNNAME_LINE_NO + 1]))]

NoReaction == [name |-> NameUnset, reactants |-> << >>, products |-> << >>]

\* rxn.to_rxnfile(path, wilds_to_R_groups)
RxnExport ==
    /\ rf_pc = "new"
    /\ rf_file' = to_rxnfile(rf_rxn, rf_wilds)
    /\ rf_pc' = "written"
    /\ UNCHANGED << schemaVars, genVars, rxVars, pgVars, infoVars, fragVars, queryVars, latVars, topVars,
                    rf_rxn, rf_wilds, rf_loaded, rf_err >>

\* from_rxnfile, first statement: RDKit reads the file.  What it does with a
\* file that is no reaction block is its own: it raises, or it gives a reaction
\* without templates.
RxnParse ==
    /\ rf_pc = "written"
    /\ \/ /\ WellFormed(rf_file)
          /\ rf_loaded' = ReactionFromRxnFile(rf_file)
          /\ rf_pc' = "parsed"
          /\ rf_err' = "none"
       \/ /\ ~WellFormed(rf_file)
          /\ rf_loaded' = NoReaction
          /\ rf_pc' = "parsed"
          /\ rf_err' = "none"
       \/ /\ ~WellFormed(rf_file)
          /\ rf_loaded' = NoReaction
          /\ rf_pc' = "failed"
          /\ rf_err' = "ValueError"
    /\ UNCHANGED << schemaVars, genVars, rxVars, pgVars, infoVars, fragVars, queryVars, latVars, topVars,
                    rf_rxn, rf_wilds, rf_file >>

\* from_rxnfile, second statement: rxn.rxnname = cls.rxnname_from_rxnfile(path)
RxnReadName ==
    /\ rf_pc = "parsed"
    /\ LET got == rxnname_from_rxnfile(rf_file)
       IN  IF got.err = "none"
           THEN /\ rf_loaded' = [rf_loaded EXCEPT !.name = got.name]
                /\ rf_pc' = "loaded"
                /\ rf_err' = "none"
           ELSE /\ rf_pc' = "failed"
                /\ rf_err' = got.err
                /\ UNCHANGED rf_loaded
    /\ UNCHANGED << schemaVars, genVars, rxVars, pgVars, infoVars, fragVars, queryVars, latVars, topVars,
                    rf_rxn, rf_wilds, rf_file >>

RxnFileIdle ==
    /\ rf_pc = "idle"
    /\ rf_rxn = NoReaction
    /\ rf_wilds = TRUE
    /\ rf_file = << >>
    /\ rf_loaded = NoReaction
    /\ rf_err = "none"

IoIdle == LatticeIdle /\ TopIdle /\ RxnFileIdle

QueryIdle ==
    /\ q_pc = "idle"
    /\ q_services = << >>
    /\ q_prop_name = "iupac_name"
    /\ q_keep_first_only = TRUE
    /\ q_allow_null_return = FALSE
    /\ q_fail_quietly = FALSE
    /\ q_i = 0
    /\ q_queried = << >>
    /\ q_result = [kind |-> "pending", shape |-> "None", items |-> << >>]

InitSchema ==
    /\ num_reactant_templates \in 1..MaxTemplates
    /\ num_product_templates \in 1..MaxProductTemplates

InitSolver ==
    /\ num_reactant_templates \in 1..MaxTemplates
    /\ num_product_templates = 1
    /\ SolverIdle
    /\ ReactIdle
    /\ PropagateIdle
    /\ QueryIdle
    /\ IoIdle
    /\ InfoIdle
    /\ FragIdle

NextSolver == EnumCall \/ EnumFirst \/ EnumResume \/ EnumFinish

SpecSolver == InitSolver /\ [][NextSolver]_vars

InitReact ==
    /\ InitSchema
    /\ SolverIdle
    /\ ReactIdle
    /\ PropagateIdle
    /\ QueryIdle
    /\ IoIdle
    /\ InfoIdle
    /\ FragIdle

NextReact == ReactCall \/ ReactSteps

SpecReact == InitReact /\ [][NextReact]_vars

InitPropagate == InitReact

NextPropagate == PropagateCall \/ PropagateNext \/ ReactSteps \/ PropagateAfterReact

SpecPropagate == InitPropagate /\ [][NextPropagate]_vars

\* ----------------------------------------------------------- schemas for 4.1
\* The schemas the bond bookkeeping is run on: map numbers 1..MaxMapped, each on one
\* atom of one reactant template and one atom of one product template (numbered
\* template after template), the first reactant template optionally with an
\* unmapped leaving atom, the product atoms listed in rising or falling map-number
\* order, any set of bonds inside the products, any set of reacting atoms.
Blocks(K) ==
    { f \in [1..MaxMapped -> 1..K] :
        /\ \A m \in 1..(MaxMapped - 1) : f[m] <= f[m + 1]
        /\ \A k \in 1..K : \E m \in 1..MaxMapped : f[m] = k }

Reversed(q) == [k \in 1..Len(q) |-> q[Len(q) + 1 - k]]

IndexOf(q, x) == CHOOSE k \in 1..Len(q) : q[k] = x

ReactantTemplate(owner, t, leaving) ==
    [atoms |-> Ascending({ m \in 1..MaxMapped : owner[m] = t })
                  \o (IF leaving /\ t = 1 THEN << 0 >> ELSE << >>),
     bonds |-> << >>]

ProductTemplate(prod_of, j, falling, bonded) ==
    LET ms    == Ascending({ m \in 1..MaxMapped : prod_of[m] = j })
        atoms == IF falling THEN Reversed(ms) ELSE ms
        mine  == { p \in bonded : prod_of[p[1]] = j }
        code(p) == p[1] * (MaxMapped + 1) + p[2]
        order == Ascending({ code(p) : p \in mine })
    IN  [atoms |-> atoms,
         bonds |-> [k \in 1..Len(order) |->
                      LET p == CHOOSE q \in mine : code(q) = order[k]
                      IN  << IndexOf(atoms, p[1]) - 1, IndexOf(atoms, p[2]) - 1 >>]]

InitInfo ==
    /\ SolverIdle
    /\ ReactIdle
    /\ PropagateIdle
    /\ QueryIdle
    /\ IoIdle
    /\ FragIdle
    /\ info_i = 0
    /\ prod_info_map = << >>
    /\ num_reactant_templates \in 1..MaxTemplates
    /\ num_product_templates \in 1..MaxProductTemplates
    /\ \E owner \in Blocks(num_reactant_templates) :
       \E prod_of \in Blocks(num_product_templates) :
       \E leaving \in BOOLEAN : \E falling \in BOOLEAN :
       \E reacting \in SUBSET (0..MaxMapped) :
       \E bonded \in SUBSET { p \in (1..MaxMapped) \X (1..MaxMapped) :
                                p[1] < p[2] /\ prod_of[p[1]] = prod_of[p[2]] } :
          /\ (0 \in reacting) = leaving
          /\ reactant_templates =
                [t \in 1..num_reactant_templates |-> ReactantTemplate(owner, t, leaving)]
          /\ product_templates =
                [j \in 1..num_product_templates |-> ProductTemplate(prod_of, j, falling, bonded)]
          /\ reacting_atoms =
                [t \in 1..num_reactant_templates |->
                    LET tmpl == ReactantTemplate(owner, t, leaving)
                    IN  Ascending({ a \in AtomIds(tmpl) : GetAtomMapNum(tmpl, a) \in reacting })]

NextInfo == ProductInfoStep

SpecInfo == InitInfo /\ [][NextInfo]_vars

\* ---------------------------------------------------------- products for 4.4
\* The products the locators are run on: MaxAtoms atoms, any of them bridgeheads,
\* any set of bonds between them (bond indices in the order of their atom pairs),
\* any of the bonds classified new, the others classified modified or not at all.
BondsOver(pairs) ==
    LET code(p) == p[1] * MaxAtoms + p[2]
        order   == Ascending({ code(p) : p \in pairs })
    IN  [k \in 1..Len(order) |-> CHOOSE p \in pairs : code(p) = order[k]]

InitFrag ==
    /\ num_reactant_templates = 1
    /\ num_product_templates = 1
    /\ SolverIdle
    /\ ReactIdle
    /\ PropagateIdle
    /\ QueryIdle
    /\ IoIdle
    /\ InfoIdle
    /\ located = << >>
    /\ path_choice \in {"first", "last"}
    /\ \E linkers \in [1..MaxAtoms -> BOOLEAN] :
       \E pairs \in SUBSET { p \in (0..(MaxAtoms - 1)) \X (0..(MaxAtoms - 1)) : p[1] < p[2] } :
          /\ product = [atoms |-> linkers, bonds |-> BondsOver(pairs)]
          /\ \E new \in SUBSET (0..(Cardinality(pairs) - 1)) :
             \E rest_modified \in BOOLEAN :
                product_info =
                   [new |-> new,
                    mod |-> IF rest_modified
                            THEN (0..(Cardinality(pairs) - 1)) \ new ELSE {}]

NextFrag == LocateCall

SpecFrag == InitFrag /\ [][NextFrag]_vars

InitQuery ==
    /\ num_reactant_templates = 1
    /\ num_product_templates = 1
    /\ SolverIdle
    /\ ReactIdle
    /\ PropagateIdle
    /\ QueryIdle
    /\ IoIdle
    /\ InfoIdle
    /\ FragIdle

NextQuery == LookupEnter \/ LookupQuery \/ LookupGiveUp

SpecQuery == InitQuery /\ [][NextQuery]_vars

InitLattice ==
    /\ num_reactant_templates = 1
    /\ num_product_templates = 1
    /\ SolverIdle
    /\ ReactIdle
    /\ PropagateIdle
    /\ QueryIdle
    /\ InfoIdle
    /\ FragIdle
    /\ TopIdle
    /\ RxnFileIdle
    /\ lat_pc = "new"
    /\ \E n \in 1..MaxDims : sidelens \in [1..n -> 1..MaxSide]
    /\ points = << >>
    /\ lat_i = -1
    /\ lat_dot = 0

NextLattice == LatticeInit \/ LatticeMapPoint

SpecLattice == InitLattice /\ [][NextLattice]_vars

InitTopIO ==
    /\ num_reactant_templates = 1
    /\ num_product_templates = 1
    /\ SolverIdle
    /\ ReactIdle
    /\ PropagateIdle
    /\ QueryIdle
    /\ InfoIdle
    /\ FragIdle
    /\ LatticeIdle
    /\ RxnFileIdle
    /\ top_pc = "held"
    /\ \E n \in 1..MaxMolAtoms : mol_metadata \in [1..n -> AtomMetadata]
    /\ mol_property = NoProperty
    /\ sdf_property = NoProperty
    /\ saved_metadata = << >>

NextTopIO == TopEditAtom \/ topology_to_sdf \/ topology_from_sdf

SpecTopIO == InitTopIO /\ [][NextTopIO]_vars

\* a reaction about to be exported, or a file written by other means
InitRxnFile ==
    /\ num_reactant_templates = 1
    /\ num_product_templates = 1
    /\ SolverIdle
    /\ ReactIdle
    /\ PropagateIdle
    /\ QueryIdle
    /\ InfoIdle
    /\ FragIdle
    /\ LatticeIdle
    /\ TopIdle
    /\ rf_loaded = NoReaction
    /\ rf_err = "none"
    /\ \/ /\ rf_pc = "new"
          /\ \E nr \in 1..MaxTemplates, np \in 1..MaxProductTemplates :
                \E rs \in [1..nr -> TemplateAtoms], ps \in [1..np -> TemplateAtoms],
                   name \in {NameUnset} \cup {NameStr(t) : t \in TextsUpTo(MaxName)} :
                    rf_rxn = [name |-> name, reactants |-> rs, products |-> ps]
          /\ rf_wilds \in BOOLEAN
          /\ rf_file = << >>
       \/ /\ rf_pc = "written"
          /\ rf_rxn = NoReaction
          /\ rf_wilds = TRUE
          /\ rf_file \in TextsUpTo(MaxFileLen)

NextRxnFile == RxnExport \/ RxnParse \/ RxnReadName

SpecRxnFile == InitRxnFile /\ [][NextRxnFile]_vars

\* ------------------------------------------------------- claims on the solver
\* the reactant indices behind a yielded assignment (a Mol is identified by the
\* position it has in the pool)
AssignmentIdx(v) == IF as_mols THEN [s \in 1..Len(v) |-> v[s].id] ELSE v

YieldedAssignments == { i \in 1..Len(yielded) : yielded[i].kind = "tuple" }

\* C3: the generator's output is either assignments only (no None among them) or
\* exactly the one element None; None appears iff the solver finds no ordering, and
\* then it is the only element ever yielded.
C3_NoneIsSoleSentinel ==
    /\ \A i \in 1..Len(yielded) :
          yielded[i].kind = "None" => (Len(yielded) = 1 /\ Len(planner_choices) = 0)
    /\ gen_pc = "exhausted" =>
          /\ Len(yielded) >= 1
          /\ (Len(planner_choices) = 0 => yielded = << NoneType >>)
          /\ (Len(planner_choices) > 0 => Len(yielded) = Len(planner_choices))

C3_Witness ==
    /\ gen_pc = "exhausted"
    /\ Len(reactants) = num_reactant_templates
    /\ yielded = << NoneType >>

\* C4: without resampling no yielded assignment uses one reactant index in two
\* slots; with resampling a reactant that matches every template is yielded in
\* every slot at once.
C4_NoReuseWithoutResampling ==
    /\ ~allow_resampling =>
          \A i \in YieldedAssignments :
             LET a == AssignmentIdx(yielded[i].val)
             IN  \A s1, s2 \in 1..Len(a) : s1 # s2 => a[s1] # a[s2]
    /\ (allow_resampling /\ gen_pc = "exhausted") =>
          \A c \in 1..Len(reactants) :
             (\A t \in 1..num_reactant_templates : reactants[c].counts[t] > 0) =>
                \E i \in YieldedAssignments :
                   AssignmentIdx(yielded[i].val) = [t \in 1..num_reactant_templates |-> c]

C4_Witness ==
    /\ ~allow_resampling
    /\ num_reactant_templates >= 2
    /\ \E c \in 1..Len(reactants) :
          \A t \in 1..num_reactant_templates : reactants[c].counts[t] > 0
    /\ YieldedAssignments # {}

\* C5: every yielded assignment has one entry per reactant template, each entry an
\* index of the pool, and the reactant at slot t matches template t at least once.
C5_AssignmentsFitTemplates ==
    \A i \in YieldedAssignments :
       LET a == AssignmentIdx(yielded[i].val)
       IN  /\ Len(a) = num_reactant_templates
           /\ \A t \in 1..Len(a) :
                 /\ a[t] \in 1..Len(reactants)
                 /\ num_substruct_queries_distinct(reactants[a[t]], t) >= 1

C5_Witness ==
    /\ num_reactant_templates >= 2
    /\ YieldedAssignments # {}
    /\ \E c \in 1..Len(reactants) : \E t \in 1..num_reactant_templates :
          reactants[c].counts[t] = 0

\* -------------------------------------------------------- claims on react
\* C1: a pool whose size differs from the number of reactant templates makes react
\* fail with BadNumberReactants, with neither the ordering search started nor the
\* reaction engine run.
C1_CountCheckBeforeSearch ==
    (rx_pc \notin {"idle", "validating"} /\ Len(rx_input) # num_reactant_templates) =>
        /\ rx_pc = "failed"
        /\ rx_err = "BadNumberReactants"
        /\ ~ordering_search_started
        /\ ~engine_run
        /\ rx_products = << >>

C1_Witness ==
    /\ rx_pc = "failed"
    /\ rx_err = "BadNumberReactants"
    /\ Len(rx_input) > num_reactant_templates

\* C2: a pool of exactly R reactants with no valid ordering makes react fail with
\* ReactantTemplateMismatch, the engine not run and no product returned; otherwise
\* the reactants react goes on with are those of the first ordering of the solver.
C2_MismatchWithoutEngine ==
    LET os == SolverOrderings(rx_input, FALSE)
    IN  (rx_pc \notin {"idle", "validating", "reordering"}
            /\ Len(rx_input) = num_reactant_templates) =>
           IF Len(os) = 0
           THEN /\ rx_pc = "failed"
                /\ rx_err = "ReactantTemplateMismatch"
                /\ ~engine_run
                /\ rx_products = << >>
           ELSE /\ rx_err # "ReactantTemplateMismatch"
                /\ Len(rx_reactants) = num_reactant_templates
                /\ \A s \in 1..Len(rx_reactants) : rx_reactants[s].id = os[1][s]

C2_Witness ==
    /\ rx_pc = "failed"
    /\ rx_err = "ReactantTemplateMismatch"
    /\ num_reactant_templates >= 2
    /\ \A t \in 1..num_reactant_templates : \E c \in 1..Len(rx_input) :
          rx_input[c].counts[t] > 0

\* ------------------------------------------------------ claims on propagate
\* C10: once react has failed with ReactantTemplateMismatch inside propagate, the
\* generator has ended normally: no error has left it, and it takes no further step.
C10_MismatchEndsPropagate ==
    /\ (pg_pc \notin {"idle", "reacting"} /\ rx_err = "ReactantTemplateMismatch") =>
          (pg_pc = "ended" /\ pg_err = "none")
    /\ pg_pc = "ended" => (~ENABLED PropagateNext /\ ~ENABLED PropagateAfterReact)

C10_Witness ==
    /\ pg_pc = "ended"
    /\ rx_err = "ReactantTemplateMismatch"
    /\ Len(pg_reactants) = num_reactant_templates
    /\ pg_yielded = << >>

\* ------------------------------------------------ claims on product_info_maps
\* the bonds of a product template that join two reactive atoms: atoms whose map
\* number is that of a reacting atom of a reactant template
ReactiveAtoms(product_template) ==
    { a \in AtomIds(product_template) :
        GetAtomMapNum(product_template, a) \in Range(reacting_atom_map_nums) }

ReactiveBonds(product_template) ==
    { b \in BondIds(product_template) :
        /\ product_template.bonds[b + 1][1] \in ReactiveAtoms(product_template)
        /\ product_template.bonds[b + 1][2] \in ReactiveAtoms(product_template) }

\* the reactant templates that hold an atom with the given map number
TemplatesHolding(map_num) ==
    { t \in 1..Len(reactant_templates) : map_num \in Range(reactant_templates[t].atoms) }

\* C6: in every RxnProductInfo built, the keys of new_bond_ids_to_map_nums and of
\* mod_bond_ids_to_map_nums are disjoint, and together they are exactly the bonds of
\* the product template that join two reactive atoms.
C6_BondClassesPartition ==
    \A i \in DOMAIN prod_info_map :
       LET info == prod_info_map[i]
           new  == DOMAIN info.new_bond_ids_to_map_nums
           mod  == DOMAIN info.mod_bond_ids_to_map_nums
       IN  /\ new \cap mod = {}
           /\ new \cup mod = ReactiveBonds(product_templates[i + 1])

C6_Witness ==
    \E i \in DOMAIN prod_info_map :
       /\ DOMAIN prod_info_map[i].new_bond_ids_to_map_nums # {}
       /\ BondIds(product_templates[i + 1]) \ ReactiveBonds(product_templates[i + 1]) # {}

\* C7: a bond between two reactive atoms is classified modified exactly when one
\* reactant template holds the map numbers of both its endpoints, and new exactly
\* when no reactant template holds both.
C7_ModifiedIffSameReactant ==
    \A i \in DOMAIN prod_info_map :
       LET info == prod_info_map[i]
           tmpl == product_templates[i + 1]
       IN  \A b \in ReactiveBonds(tmpl) :
              LET m1 == GetAtomMapNum(tmpl, tmpl.bonds[b + 1][1])
                  m2 == GetAtomMapNum(tmpl, tmpl.bonds[b + 1][2])
                  same == TemplatesHolding(m1) \cap TemplatesHolding(m2) # {}
              IN  /\ (b \in DOMAIN info.mod_bond_ids_to_map_nums) = same
                  /\ (b \in DOMAIN info.new_bond_ids_to_map_nums) = ~same

C7_Witness ==
    \E i \in DOMAIN prod_info_map :
       /\ DOMAIN prod_info_map[i].new_bond_ids_to_map_nums # {}
       /\ DOMAIN prod_info_map[i].mod_bond_ids_to_map_nums # {}

\* ---------------------------------------------------- claims on fragment.py
\* C8: one call of locate_intermonomer_bonds yields no bond twice and yields, as a
\* set, what the strategy's _locate_intermonomer_bonds produces; a second call on
\* the same product yields the same set.
C8_LocatedOnceEach ==
    LET raw == Range(_locate_intermonomer_bonds(product, product_info))
    IN  located # << >> =>
           /\ \A c \in 1..Len(located) :
                 /\ \A i, j \in 1..Len(located[c]) : i # j => located[c][i] # located[c][j]
                 /\ Range(located[c]) = raw
           /\ Len(located) = 2 => Range(located[1]) = Range(located[2])

C8_Witness ==
    /\ Len(located) = 2
    /\ LET raw == _locate_intermonomer_bonds(product, product_info)
       IN  \E i, j \in 1..Len(raw) : i # j /\ raw[i] = raw[j]

\* C9: ReseparateRGroups selects exactly the bonds classified new that lie on the
\* shortest path between two distinct bridgeheads; no bond classified modified or
\* left unclassified is selected; fewer than two bridgeheads select nothing.
BridgeheadAtoms == { a \in AtomIds(product) : product.atoms[a + 1] }

C9_NewBondsOnBridgeheadPaths ==
    LET on_paths == UNION { get_shortest_path_bonds(product, p[1], p[2]) :
                              p \in { q \in BridgeheadAtoms \X BridgeheadAtoms : q[1] < q[2] } }
        expected == { b \in product_info.new : b \in on_paths }
    IN  located # << >> =>
           \A c \in 1..Len(located) :
              /\ Range(located[c]) = expected
              /\ Range(located[c]) \cap product_info.mod = {}
              /\ Range(located[c]) \subseteq product_info.new
              /\ Cardinality(BridgeheadAtoms) < 2 => located[c] = << >>

C9_Witness ==
    /\ Len(located) >= 1
    /\ located[1] # << >>
    /\ product_info.mod # {}
    /\ product_info.new \ Range(located[1]) # {}

\* --------------------------------------------- further claim on the solver
\* C16 as stated: a pool of zero candidates, or of a number of candidates other than
\* the number of reactant templates, gives the no-solution result.
C16_MiscountIsNoSolution ==
    (gen_pc \notin {"idle", "created"}
        /\ (Len(reactants) = 0 \/ Len(reactants) # num_reactant_templates)) =>
       yielded = << NoneType >>

\* C16 as amended: a pool of zero candidates, or without resampling of fewer
\* candidates than reactant templates, gives the no-solution result and nothing else.
C16_TooFewCandidatesNoSolution ==
    (gen_pc \notin {"idle", "created"}
        /\ (Len(reactants) = 0
               \/ (~allow_resampling /\ Len(reactants) < num_reactant_templates))) =>
       yielded = << NoneType >>

C16_Witness ==
    /\ gen_pc = "exhausted"
    /\ ~allow_resampling
    /\ Len(reactants) = 1
    /\ num_reactant_templates = 2
    /\ \A t \in 1..num_reactant_templates : reactants[1].counts[t] > 0
    /\ yielded = << NoneType >>

\* ------------------------------------------- further claims on propagate, react
\* C11: every step of propagate on which react has returned products ends at the
\* yield, the pair yielded holding the adducts of that step and, for each adduct, at
\* least the one piece fragmentation leaves of it.
C11_SuccessfulStepYieldsPair ==
    (pg_pc \notin {"idle", "created", "reacting"} /\ rx_pc = "done") =>
        /\ pg_pc = "suspended"
        /\ pg_err = "none"
        /\ Len(pg_yielded) >= 1
        /\ pg_yielded[Len(pg_yielded)].adducts = rx_products
        /\ Len(pg_yielded[Len(pg_yielded)].fragments) >= Len(rx_products)

\* C12: a propagate over monomers the schema can react, none of whose products
\* fails sanitization, stops only by reaching the end of its sequence: when the
\* generator has stopped, it has stopped normally.
C12_ReactiveMonomersReachEnd ==
    (/\ pg_pc \in {"ended", "raised"}
     /\ Len(pg_monomers) = num_reactant_templates
     /\ Len(SolverOrderings(pg_monomers, FALSE)) > 0
     /\ pg_err # "SanitizeError") =>
        pg_pc = "ended"

\* C13: whatever react does, the caller's sequence holds the same molecules in the
\* same order with no reactant index set on them; the molecules react labels and
\* reacts are other objects, labelled with their position in the ordering.
C13_CallerReactantsUntouched ==
    /\ \A i \in 1..Len(rx_input) :
          /\ rx_input[i].id = i
          /\ rx_input[i].obj = i
          /\ rx_input[i].reactant_idx = -1
    /\ rx_pc \in {"executing", "annotating", "sanitizing", "done"} =>
          \A s \in 1..Len(rx_reactants) :
             /\ rx_reactants[s].reactant_idx = s - 1
             /\ \A i \in 1..Len(rx_input) : rx_reactants[s].obj # rx_input[i].obj

C13_Witness ==
    /\ rx_pc = "done"
    /\ rx_products # << >>
    /\ Len(rx_input) >= 2
    /\ rx_reactants[1].id = 2

\* C14: the index react looks a raw product's annotation info up by is the index of
\* the product template that produced the product, and has an entry in the tables.
C14_InfoIndexIsTemplateIndex ==
    rx_pc \in {"annotating", "sanitizing"} =>
        /\ rx_product_idx = rx_raw_products[rx_product_idx + 1].template
        /\ HasProductInfo(rx_product_idx)

\* C15: once sanitization of a product has failed, react has failed with that error
\* and hands back no list; inside propagate the generator then stops by raising that
\* error, not by ending, and takes no further step.
C15_SanitizeFailureReachesCaller ==
    rx_err = "SanitizeError" =>
        /\ rx_pc = "failed"
        /\ ReactReturned = NoneType
        /\ pg_pc # "reacting" =>
              /\ pg_pc = "raised"
              /\ pg_err = "SanitizeError"
              /\ ~ENABLED PropagateNext

C15_Witness ==
    /\ pg_pc = "raised"
    /\ pg_err = "SanitizeError"
    /\ rx_products # << >>

\* ------------------------------------------ claims on the chemical database lookup
ListedFailures == {"HTTPError", "InvalidPropertyError", "NullPropertyResponse"}

\* C17: a query that fails with HTTPError, InvalidPropertyError or
\* NullPropertyResponse is never what get_chemical_property raises: the next entry
\* of services is taken up, and when a later query gives a value the call has
\* returned that value.
C17_ListedFailuresFallThrough ==
    /\ q_result.kind \notin ListedFailures
    /\ \A k \in 1..Len(q_queried) :
          q_queried[k].outcome.kind \in ListedFailures =>
             /\ k < Len(q_queried) => q_queried[k + 1].idx = q_queried[k].idx + 1
             /\ (k = Len(q_queried) /\ q_queried[k].idx < Len(q_services)) =>
                   \/ q_pc = "looping" /\ q_i = q_queried[k].idx + 1
                   \/ /\ q_pc = "raised"
                      /\ q_services[q_queried[k].idx + 1].strategy \notin Range(SubclassRegistry)
             /\ \A j \in (k + 1)..Len(q_queried) :
                   q_queried[j].outcome.kind = "value" =>
                      q_pc = "returned" /\ q_result = q_queried[j].outcome

C17_Witness ==
    /\ q_pc = "returned"
    /\ Len(q_queried) = 2
    /\ q_queried[1].outcome.kind = "HTTPError"
    /\ q_queried[2].outcome.kind = "value"
    /\ q_result = q_queried[2].outcome

\* C18: the queries go to the services in the order given, one at a time with none
\* left out; a query that gives a value is the last one sent and its value is what
\* the call returns, so the value returned from the loop is that of the first
\* service whose query succeeds.
C18_FirstSuccessInOrder ==
    /\ Len(q_queried) <= Len(q_services)
    /\ \A k \in 1..Len(q_queried) :
          /\ q_queried[k].idx = k
          /\ q_queried[k].outcome.kind = "value" =>
                /\ k = Len(q_queried)
                /\ q_pc = "returned"
                /\ q_result = q_queried[k].outcome
    /\ q_pc = "returned" =>
          \/ /\ q_queried # << >>
             /\ q_result = q_queried[Len(q_queried)].outcome
             /\ q_result.kind = "value"
          \/ /\ q_fail_quietly
             /\ Len(q_queried) = Len(q_services)
             /\ \A k \in 1..Len(q_queried) : q_queried[k].outcome.kind \in ListedFailures
             /\ q_result = Value("None", << >>)

C18_Witness ==
    /\ q_pc = "returned"
    /\ Len(q_services) = 2
    /\ Len(q_queried) = 1
    /\ q_result.kind = "value"
    /\ q_result.shape = "item"

\* C19: every query of a service either gives a value or fails with one of
\* InvalidPropertyError, NullPropertyResponse and HTTPError, and gives None only
\* when allow_null_return is set.
C19_QueryGivesValueOrListedFailure ==
    \A k \in 1..Len(q_queried) :
       /\ q_queried[k].outcome.kind \in {"value"} \cup ListedFailures
       /\ (q_queried[k].outcome.kind = "value" /\ q_queried[k].outcome.shape = "None") =>
             q_allow_null_return

\* C20: a call with no service at all raises IndexError with no query sent; a call
\* all of whose services have been queried and have failed raises ValueError, or
\* returns None when fail_quietly is set.
C20_AllFailedOutcome ==
    /\ (q_pc # "idle" /\ q_services = << >>) =>
          (q_pc = "raised" /\ q_result = Raised("IndexError") /\ q_queried = << >>)
    /\ (/\ q_pc \in {"returned", "raised"}
        /\ Len(q_services) > 0
        /\ Len(q_queried) = Len(q_services)
        /\ \A k \in 1..Len(q_queried) : q_queried[k].outcome.kind # "value") =>
          q_result = (IF q_fail_quietly THEN Value("None", << >>) ELSE Raised("ValueError"))

\* --------------------------------------------------- claims on react's phases
PhaseRank(pc) ==
    CASE pc = "idle" -> 0
      [] pc = "validating" -> 1
      [] pc = "reordering" -> 2
      [] pc = "executing" -> 3
      [] pc = "annotating" -> 4
      [] pc = "sanitizing" -> 5
      [] pc = "done" -> 6
      [] pc = "failed" -> 7

\* C24 as stated: within a call the phase never goes back to an earlier one of
\* Validating, Reordering, Executing, Annotating, Sanitizing, Done, and nothing
\* follows a failure.
C24_PhasesNeverGoBack ==
    [][PhaseRank(rx_pc') >= PhaseRank(rx_pc)]_vars

\* C24 as amended: Validating, Reordering and Executing are entered once each in
\* this order; then every raw product in turn is annotated and right after that
\* sanitized, the next product annotated only after the one before is sanitized;
\* Done follows the sanitization of the last product (or Executing when there is
\* none); nothing follows Done or a failure.
C24_PhasesPerProduct ==
    [][rx_pc' # rx_pc =>
          \/ rx_pc = "idle" /\ rx_pc' = "validating"
          \/ rx_pc = "validating" /\ rx_pc' \in {"reordering", "failed"}
          \/ rx_pc = "reordering" /\ rx_pc' \in {"executing", "failed"}
          \/ rx_pc = "executing" /\ rx_pc' = "annotating"
                /\ rx_product_idx' = 0 /\ rx_raw_products' # << >>
          \/ rx_pc = "executing" /\ rx_pc' = "done" /\ rx_raw_products' = << >>
          \/ rx_pc = "annotating" /\ rx_pc' \in {"sanitizing", "failed"}
                /\ rx_product_idx' = rx_product_idx
          \/ rx_pc = "sanitizing" /\ rx_pc' = "annotating"
                /\ rx_product_idx' = rx_product_idx + 1
                /\ rx_product_idx' < Len(rx_raw_products)
                /\ Len(rx_products') = rx_product_idx'
          \/ rx_pc = "sanitizing" /\ rx_pc' = "done"
                /\ Len(rx_products') = Len(rx_raw_products)
          \/ rx_pc = "sanitizing" /\ rx_pc' = "failed"]_vars

C24_Witness ==
    /\ rx_pc = "annotating"
    /\ rx_product_idx = 1
    /\ Len(rx_products) = 1
    /\ Len(rx_raw_products) >= 2

\* C25: in propagate, a step whose pool has a size other than the number of
\* reactant templates makes react fail with BadNumberReactants, and the generator
\* then stops by raising that error; only ReactantTemplateMismatch ends it silently.
C25_CountErrorReachesConsumer ==
    /\ (pg_pc = "reacting" /\ rx_pc # "validating"
          /\ Len(pg_reactants) # num_reactant_templates) =>
          (rx_pc = "failed" /\ rx_err = "BadNumberReactants")
    /\ (pg_pc \notin {"idle", "created", "reacting"} /\ rx_err = "BadNumberReactants") =>
          (pg_pc = "raised" /\ pg_err = "BadNumberReactants")
    /\ pg_pc = "ended" => rx_err = "ReactantTemplateMismatch"

C25_Witness ==
    /\ pg_pc = "raised"
    /\ pg_err = "BadNumberReactants"
    /\ Len(pg_yielded) >= 1
    /\ Len(pg_monomers) = num_reactant_templates

\* --------------------------------------------- further claims on the orderings
\* an ordering of the pool by the templates, stated without the search: slot t holds
\* a reactant that matches template t, and no reactant twice unless resampling
OrderingExists(rs, resampling) ==
    \E f \in [1..num_reactant_templates -> 1..Len(rs)] :
       /\ \A t \in 1..num_reactant_templates : rs[f[t]].counts[t] > 0
       /\ ~resampling => \A t, u \in 1..num_reactant_templates : f[t] = f[u] => t = u

\* C26: has_reactable_subset is True exactly when an ordering of the pool exists,
\* whatever the size of the pool, and valid_reactant_ordering is the first element
\* enumerate_valid_reactant_orderings yields: an ordering, or None when there is none.
C26_ReactableIffOrderingExists ==
    gen_pc # "idle" =>
       /\ has_reactable_subset(reactants, allow_resampling)
              <=> OrderingExists(reactants, allow_resampling)
       /\ yielded # << >> =>
              /\ valid_reactant_ordering(reactants, as_mols, allow_resampling) = yielded[1]
              /\ (yielded[1] = NoneType) <=> ~OrderingExists(reactants, allow_resampling)

C26_Witness ==
    /\ gen_pc = "exhausted"
    /\ Len(reactants) > num_reactant_templates
    /\ Len(yielded) >= 2
    /\ has_reactable_subset(reactants, allow_resampling)

\* -------------------------------------------- further claim on get_property
\* C27: every query of a service validates the property name first, and for a name
\* the service does not list it fails with InvalidPropertyError with the backend
\* query never sent.
C27_ValidatedBeforeQuery ==
    \A k \in 1..Len(q_queried) :
       LET service_name == q_services[q_queried[k].idx].strategy
       IN  /\ q_queried[k].calls[1] = "validate_property"
           /\ q_prop_name \notin available_properties(service_name) =>
                 /\ q_queried[k].outcome = Raised("InvalidPropertyError")
                 /\ "_get_property" \notin Range(q_queried[k].calls)

C27_Witness ==
    /\ Len(q_queried) >= 1
    /\ q_queried[1].outcome.kind = "InvalidPropertyError"
    /\ q_services[1].strategy = "PubChem"
    /\ q_prop_name = "mw"

\* ------------------------------------------------- claim on integer lattices
\* C28: the dot product of lex_ordered_weights with the point generate_int_lattice
\* stores at index i is i, for every point of the lattice.
C28_WeightsGiveIndex ==
    lat_pc = "mapped" => lat_dot = lat_i

\* ---------------------------------------------------- claim on topology I/O
\* C23: a molecule read back from the file it was written to has, on every atom,
\* exactly the metadata it had when written; atoms with empty metadata are not
\* packaged, and a molecule with no atom metadata is written with no metadata
\* property.
C23_MetadataRoundTrip ==
    /\ top_pc = "loaded" => mol_metadata = saved_metadata
    /\ top_pc = "saved" =>
          /\ \A it \in sdf_property.items : saved_metadata[it.atom] # {}
          /\ (\A a \in DOMAIN saved_metadata : saved_metadata[a] = {}) => sdf_property = NoProperty

\* --------------------------------------------------- claims on reaction files
NoUsableNameLine(text) ==
    \/ Len(Lines(text)) < 2
    \/ ~RXNNAME_RE_matches(Lines(text)[2])

Exported == rf_rxn # NoReaction

SameSchema ==
    /\ rf_pc = "loaded"
    /\ Len(rf_loaded.reactants) = Len(rf_rxn.reactants)
    /\ Len(rf_loaded.products) = Len(rf_rxn.products)
    /\ rf_loaded.reactants = rf_rxn.reactants
    /\ rf_loaded.products = rf_rxn.products

OnlyNameLineReplaced ==
    LET block == ReactionToRxnBlock(rf_rxn)
        lines == Lines(IF rf_wilds THEN replace_wilds(block) ELSE block)
    IN  rf_file = lines[1] \o << TAB, TAB, TAB >> \o Formatted(rxnname(rf_rxn)) \o << NL >>
                    \o Concat(SubSeq(lines, 3, Len(lines)))

PlainName(name) ==
    /\ name.kind = "str"
    /\ \A i \in 1..Len(name.chars) : name.chars[i] # NL
    /\ name.chars = << >> \/ name.chars[1] # TAB

====
